---- MODULE Spec2Model ----
(***************************************************************************)
(* CSVGlobalState: the coordinator of a parallel CSV scan                  *)
(* (src/execution/operator/csv_scanner/table_function/global_csv_state.cpp)*)
(*                                                                         *)
(* The coordinator is built once per scan from a file list and a thread    *)
(* budget.  Workers pull scan units with Next(), run them, and call        *)
(* DecrementThread() when Next() returns nothing; the call that brings     *)
(* running_threads to zero runs FillRejectsTable().                        *)
(*                                                                         *)
(* File indexes are 0-based as in the code; files[i + 1] is file i.        *)
(* Every function that holds main_mutex for its whole body is one action;  *)
(* the unlocked single-threaded branch of Next() is two actions, split at  *)
(* its atomic fetch-and-increment.                                         *)
(***************************************************************************)
EXTENDS Integers, Sequences, FiniteSets

\* ------------------------------------------------------------------ bounds

\* Most files of one scan.
MaxFiles == 3

\* Largest thread budget (system_threads); also the size of the worker pool.
MaxBudget == 2

\* Most errors recorded in the error handlers of one scan.
MaxErrors == 2

\* Most files of a scan whose rejects are followed.
MaxRejectFiles == 2

\* Largest rejects_limit option tried.
MaxLimit == 1

\* Most other statements that share the reject sink.
MaxOthers == 1

\* Bytes of one boundary (CSVIterator::BYTES_PER_THREAD), scaled down.
BYTES_PER_THREAD == 2

\* Bytes of one full buffer of a file's buffer manager, scaled down.
CSV_BUFFER_SIZE == 3

\* Declared columns of the scan (bind_data.return_names.size()).
NumColumns == 2

\* ----------------------------------------------------------------- helpers

Min(a, b) == IF a < b THEN a ELSE b

\* Mutant of Last: file_scans.front().
Front(s) == s[1]

Last(s) == s[Len(s)]

RECURSIVE SumTo(_, _)
SumTo(f, n) == IF n = 0 THEN 0 ELSE f[n] + SumTo(f, n - 1)

\* File sizes tried: empty, smaller than one boundary, and one byte more
\* than a full buffer (so the file has two buffers).
FileSizes == {0, 1, CSV_BUFFER_SIZE + 1}

\* The files of these sizes are compressed.
CompressedSizes == {1}

FileLists == UNION {[1..n -> FileSizes] : n \in 1..MaxFiles}

Workers == 1..MaxBudget

\* ------------------------------------------------------------- error kinds

AcceptedErrorTypes ==
    {"CAST_ERROR", "TOO_MANY_COLUMNS", "TOO_FEW_COLUMNS", "MAXIMUM_LINE_SIZE",
     "UNTERMINATED_QUOTES", "INVALID_UNICODE"}

\* The kinds the switch statements name, and one kind they do not.
CSVErrorType == AcceptedErrorTypes \cup {"SNIFFING"}

\* Mutant of IsCSVErrorAcceptedReject: every kind is accepted.
AcceptsEveryKind(type) == TRUE

IsCSVErrorAcceptedReject(type) ==
    CASE type = "CAST_ERROR" -> TRUE
      [] type = "TOO_MANY_COLUMNS" -> TRUE
      [] type = "TOO_FEW_COLUMNS" -> TRUE
      [] type = "MAXIMUM_LINE_SIZE" -> TRUE
      [] type = "UNTERMINATED_QUOTES" -> TRUE
      [] type = "INVALID_UNICODE" -> TRUE
      [] OTHER -> FALSE

CSVErrorTypeToEnum(type) ==
    CASE type = "CAST_ERROR" -> "CAST"
      [] type = "TOO_FEW_COLUMNS" -> "MISSING COLUMNS"
      [] type = "TOO_MANY_COLUMNS" -> "TOO MANY COLUMNS"
      [] type = "MAXIMUM_LINE_SIZE" -> "LINE SIZE OVER MAXIMUM"
      [] type = "UNTERMINATED_QUOTES" -> "UNQUOTED VALUE"
      [] type = "INVALID_UNICODE" -> "INVALID UNICODE"
      [] OTHER -> "InternalException"

\* ------------------------------------------------------------------- state

VARIABLES
    files,                     \* bind_data.files: the size of each file
    options,                   \* parallel, store_rejects, rejects_limit
    debug_set_max_line_length, \* context.client_data flag
    row_errors,                \* the errors the rows of the files can raise
    system_threads,
    single_threaded,
    file_scans,                \* file indexes of the coordinator's CSVFileScans
    last_file_idx,
    scanner_idx,
    running_threads,
    current_boundary,
    current_buffer_in_use,
    finished,
    bytes_read,                \* CSVFileScan::bytes_read of each file
    errors,                    \* error_handler->errors of each file
    rejects,                   \* the CSVRejectsTable: count and appended rows
    debug_max_line_length,     \* context.client_data->debug_max_line_length
    pc,                        \* where each worker is
    cur_idx,                   \* Next()'s local cur_idx of each worker
    scanner,                   \* the StringValueScanner each worker holds
    use_count,                 \* shared_ptr use count of each CSVBufferUsage made
    issued,                    \* history: the scanners returned, in order
    claimed,                   \* history: the results of last_file_idx++
    finalized,                 \* history: running DecrementThread calls that finalized
    decrements,                \* history: DecrementThread calls made
    others                     \* the errors collected by each of the other
                               \* statements that share the sink and have
                               \* not finalized yet

vars ==
    <<files, options, debug_set_max_line_length, row_errors, system_threads,
      single_threaded, file_scans, last_file_idx, scanner_idx, running_threads, current_boundary,
      current_buffer_in_use, finished, bytes_read, errors, rejects,
      debug_max_line_length, pc, cur_idx, scanner, use_count, issued, claimed,
      finalized, decrements, others>>

config ==
    <<files, options, debug_set_max_line_length, row_errors, system_threads,
      single_threaded>>

\* ------------------------------------------------- files, buffers, cursor

FileCount == Len(files)

FileSize(f) == files[f + 1]

\* Buffers of a file of `size` bytes: every buffer is full but the last,
\* and an empty file still has its buffer 0.
BufferCount(size) ==
    IF size = 0 THEN 1 ELSE (size + CSV_BUFFER_SIZE - 1) \div CSV_BUFFER_SIZE

\* GetBuffer(b)->actual_size
ActualSize(size, b) == Min(CSV_BUFFER_SIZE, size - b * CSV_BUFFER_SIZE)

\* CSVIterator(): the empty cursor of single-threaded mode.
EmptyIterator ==
    [is_set |-> FALSE, file_idx |-> 0, buffer_idx |-> 0, buffer_pos |-> 0,
     boundary_idx |-> 0]

\* CSVIterator(file_idx, buffer_idx, buffer_pos, boundary_idx, buffer_size)
CSVIterator(file_idx, buffer_idx, buffer_pos, boundary_idx) ==
    [is_set |-> TRUE, file_idx |-> file_idx, buffer_idx |-> buffer_idx,
     buffer_pos |-> buffer_pos, boundary_idx |-> boundary_idx]

\* CSVIterator::Next(buffer_manager): one quantum further within the buffer,
\* else the start of the next buffer, else FALSE when the file has no more
\* content; an unset cursor never advances.
IteratorNext(it, size) ==
    IF ~it.is_set THEN [ok |-> FALSE, it |-> it]
    ELSE IF it.buffer_pos + BYTES_PER_THREAD < ActualSize(size, it.buffer_idx)
    THEN [ok |-> TRUE,
          it |-> [it EXCEPT !.buffer_pos = @ + BYTES_PER_THREAD,
                            !.boundary_idx = @ + 1]]
    ELSE IF it.buffer_idx + 1 < BufferCount(size)
    THEN [ok |-> TRUE,
          it |-> [it EXCEPT !.buffer_idx = @ + 1, !.buffer_pos = 0,
                            !.boundary_idx = @ + 1]]
    ELSE [ok |-> FALSE, it |-> it]

\* The bytes of its file a boundary covers, as offsets from the file's start.
BoundaryBytes(it, size) ==
    {it.buffer_idx * CSV_BUFFER_SIZE + p :
        p \in it.buffer_pos ..
              Min(it.buffer_pos + BYTES_PER_THREAD, ActualSize(size, it.buffer_idx)) - 1}

\* Mutant of CSVBufferUsage: the token is always that of the file's buffer 0.
CSVBufferUsageFirstBuffer(f, buffer_idx) == [file_idx |-> f, buffer_idx |-> 0]

\* make_shared<CSVBufferUsage>(buffer_manager of file f, buffer_idx)
CSVBufferUsage(f, buffer_idx) == [file_idx |-> f, buffer_idx |-> buffer_idx]

NoScanner == [scanner_idx |-> -1]

\* A scanner whose buffer_tracker was never assigned.
NoTracker == [file_idx |-> -1, buffer_idx |-> -1]

\* A shared_ptr to the CSVBufferUsage `tracker` comes to life: made by
\* make_shared, or copied from another shared_ptr.
Acquire(counts, tracker) ==
    IF tracker = NoTracker THEN counts
    ELSE [t \in DOMAIN counts \cup {tracker} |->
             IF t = tracker
             THEN (IF t \in DOMAIN counts THEN counts[t] + 1 ELSE 1)
             ELSE counts[t]]

\* Mutant of Drop: an overwritten or destroyed shared_ptr keeps its share.
DropNothing(counts, tracker) == counts

\* A shared_ptr to the CSVBufferUsage `tracker` is overwritten or destroyed.
Drop(counts, tracker) ==
    IF tracker = NoTracker THEN counts ELSE [counts EXCEPT ![tracker] = @ - 1]

\* ~CSVBufferUsage has run, which resets the buffer in its buffer manager:
\* the use count of the object has come down to 0.
Released(tracker) == tracker \in DOMAIN use_count /\ use_count[tracker] = 0

\* Mutant of NewScanner: the scanner is not given a copy of the token.
NewScannerNoTracker(idx, f, boundary, tracker) ==
    [scanner_idx |-> idx, file_idx |-> f, boundary |-> boundary,
     buffer_tracker |-> NoTracker]

\* Mutant of NewScanner: every scanner starts at the head of its file.
NewScannerAtStart(idx, f, boundary, tracker) ==
    [scanner_idx |-> idx, file_idx |-> f, boundary |-> CSVIterator(f, 0, 0, 0),
     buffer_tracker |-> tracker]

\* make_uniq<StringValueScanner>(scanner_idx, ..., file, false, boundary);
\* buffer_tracker is assigned in range-parallel mode only.
NewScanner(idx, f, boundary, tracker) ==
    [scanner_idx |-> idx, file_idx |-> f, boundary |-> boundary,
     buffer_tracker |-> tracker]

\* ------------------------------------------------------------ construction

\* Mutant of ManyCsvFiles: the budget is not doubled.
ManyCsvFilesNoDouble(nfiles, threads) == nfiles > 1 /\ nfiles > threads

\* bool many_csv_files = files.size() > 1 && files.size() > system_threads * 2
ManyCsvFiles(nfiles, threads) == nfiles > 1 /\ nfiles > threads * 2

SingleThreaded(nfiles, threads, parallel) ==
    ManyCsvFiles(nfiles, threads) \/ ~parallel

\* Mutant of MaxThreadsOf: the quotient is rounded up before the + 1.
MaxThreadsCeil(single, file_size, threads) ==
    IF single THEN threads
    ELSE LET total_threads ==
                 (file_size + BYTES_PER_THREAD - 1) \div BYTES_PER_THREAD + 1
         IN  IF total_threads < threads THEN total_threads ELSE threads

\* CSVGlobalState::MaxThreads, of the mode, file_scans.back()->file_size and
\* system_threads.
MaxThreadsOf(single, file_size, threads) ==
    IF single THEN threads
    ELSE LET total_threads == file_size \div BYTES_PER_THREAD + 1
         IN  IF total_threads < threads THEN total_threads ELSE threads

\* Mutant of MaxThreads: the size is that of the first file's CSVFileScan.
MaxThreadsFirstFile ==
    MaxThreadsOf(single_threaded, FileSize(file_scans[1]), system_threads)

MaxThreads == MaxThreadsOf(single_threaded, FileSize(Last(file_scans)), system_threads)

\* The constructor, and a pool of `pool` workers about to call Next().
Construct(fs, rows, threads, opts, dbg, pool) ==
    /\ files = fs
    /\ row_errors = rows
    /\ options = opts
    /\ debug_set_max_line_length = dbg
    /\ system_threads = threads
    /\ file_scans = <<0>>
    /\ single_threaded = SingleThreaded(Len(fs), threads, opts.parallel)
    /\ last_file_idx = 0
    /\ scanner_idx = 0
    /\ running_threads = MaxThreadsOf(single_threaded, fs[1], threads)
    /\ current_boundary =
           IF single_threaded THEN EmptyIterator ELSE CSVIterator(0, 0, 0, 0)
    /\ current_buffer_in_use = CSVBufferUsage(0, 0)
    /\ use_count = Acquire(<<>>, CSVBufferUsage(0, 0))
    /\ finished = FALSE
    /\ bytes_read = [f \in 0..(Len(fs) - 1) |-> 0]
    /\ errors = [f \in 0..(Len(fs) - 1) |-> <<>>]
    /\ rejects = [count |-> 0, rows |-> <<>>]
    /\ debug_max_line_length = [captured |-> FALSE, file_idx |-> -1]
    /\ pool \in 1..running_threads
    /\ pc = [w \in Workers |-> IF w <= pool THEN "next" ELSE "absent"]
    /\ cur_idx = [w \in Workers |-> -1]
    /\ scanner = [w \in Workers |-> NoScanner]
    /\ issued = <<>>
    /\ claimed = <<>>
    /\ finalized = 0
    /\ decrements = 0

Init ==
    \E fs \in FileLists, threads \in 1..MaxBudget, parallel \in BOOLEAN,
       pool \in Workers :
        /\ Construct(fs, {}, threads,
                     [parallel |-> parallel, store_rejects |-> TRUE,
                      rejects_limit |-> 0],
                     FALSE, pool)
        /\ others = <<>>


\* ---------------------------------------------------------------- progress

\* Mutant of ProgressNumOf: an empty file counts as not read at all.
ProgressNumEmptyUnread(file_idx, size, bytes) ==
    IF size = 0 THEN 100 * file_idx
    ELSE 100 * (file_idx * size + Min(size, bytes))

\* CSVGlobalState::GetProgress as the exact fraction ProgressNum / ProgressDen
\* (the code computes it in doubles):
\*   (GetFileIdx() / total_files + (1 / total_files) * progress) * 100
\* with progress = 1 for an empty file, else min(1, bytes_read / file_size).
ProgressNumOf(file_idx, size, bytes) ==
    IF size = 0 THEN 100 * (file_idx + 1)
    ELSE 100 * (file_idx * size + Min(size, bytes))

ProgressDenOf(total_files, size) ==
    IF size = 0 THEN total_files ELSE total_files * size

ProgressNum ==
    ProgressNumOf(current_boundary.file_idx, FileSize(Last(file_scans)),
                  bytes_read[Last(file_scans)])

ProgressDen == ProgressDenOf(FileCount, FileSize(Last(file_scans)))

\* ------------------------------------------------------------ Next()

\* Mutant of FetchAndIncrement: ++last_file_idx.
IncrementAndFetch(v) == [value |-> v + 1, next |-> v + 1]

\* idx_t cur_idx = last_file_idx++ on the atomic counter.
FetchAndIncrement(v) == [value |-> v, next |-> v + 1]

\* if (cur_idx >= bind_data.files.size()) return nullptr;
NoMoreFiles(idx) == idx >= FileCount

\* Single-threaded mode, first half: claim a file index.
NextSingleClaim(w) ==
    /\ pc[w] = "next"
    /\ single_threaded
    /\ LET r == FetchAndIncrement(last_file_idx) IN
        /\ last_file_idx' = r.next
        /\ claimed' = Append(claimed, r.value)
        /\ cur_idx' = [cur_idx EXCEPT ![w] = r.value]
        /\ pc' = [pc EXCEPT ![w] = IF NoMoreFiles(r.value) THEN "retire" ELSE "claimed"]
    /\ UNCHANGED <<config, file_scans, scanner_idx, running_threads, current_boundary,
                   current_buffer_in_use, finished, bytes_read, errors, rejects,
                   debug_max_line_length, scanner, use_count, issued, finalized,
                   decrements, others>>

\* Single-threaded mode, second half: file 0 is file_scans.back(), any other
\* file gets a CSVFileScan only the scanner owns; file_scans is not extended.
NextSingleBuild(w) ==
    /\ pc[w] = "claimed"
    /\ LET s == NewScanner(scanner_idx, cur_idx[w], current_boundary, NoTracker) IN
        /\ scanner' = [scanner EXCEPT ![w] = s]
        /\ issued' = Append(issued, s)
    /\ scanner_idx' = scanner_idx + 1
    /\ pc' = [pc EXCEPT ![w] = "scan"]
    /\ UNCHANGED <<config, file_scans, last_file_idx, running_threads, current_boundary,
                   current_buffer_in_use, finished, bytes_read, errors, rejects,
                   debug_max_line_length, use_count, cur_idx, claimed, finalized,
                   decrements, others>>

\* Mutant of RestartBoundary: the cursor restarts with the first file's index.
RestartBoundaryFirstFile(current_file_idx) == CSVIterator(0, 0, 0, 0)

\* The boundary of a file just opened: CSVIterator(current_file_idx, 0, 0, 0, buffer_size)
RestartBoundary(current_file_idx) == CSVIterator(current_file_idx, 0, 0, 0)

\* Mutant of NoMoreWork: the finished flag is not looked at.
NoMoreWorkNever(done) == FALSE

\* if (finished) return nullptr;
NoMoreWork(done) == done

\* Range-parallel mode, under main_mutex from the first line to the return.
NextParallel(w) ==
    /\ pc[w] = "next"
    /\ ~single_threaded
    /\ IF NoMoreWork(finished)
       THEN /\ pc' = [pc EXCEPT ![w] = "retire"]
            /\ UNCHANGED <<file_scans, scanner_idx, current_boundary,
                           current_buffer_in_use, finished, scanner, use_count,
                           issued>>
       ELSE LET current_file == Last(file_scans)
                tracker ==
                    IF current_buffer_in_use.buffer_idx # current_boundary.buffer_idx
                    THEN CSVBufferUsage(current_file, current_boundary.buffer_idx)
                    ELSE current_buffer_in_use
                csv_scanner ==
                    NewScanner(scanner_idx, current_file, current_boundary, tracker)
                advanced == IteratorNext(current_boundary, FileSize(current_file))
                current_file_idx == current_file + 1
                made ==
                    IF current_buffer_in_use.buffer_idx # current_boundary.buffer_idx
                    THEN Drop(Acquire(use_count, tracker), current_buffer_in_use)
                    ELSE use_count
                tracked == Acquire(made, csv_scanner.buffer_tracker)
            IN  /\ scanner' = [scanner EXCEPT ![w] = csv_scanner]
                /\ issued' = Append(issued, csv_scanner)
                /\ scanner_idx' = scanner_idx + 1
                /\ pc' = [pc EXCEPT ![w] = "scan"]
                /\ IF advanced.ok
                   THEN /\ current_boundary' = advanced.it
                        /\ current_buffer_in_use' = tracker
                        /\ use_count' = tracked
                        /\ UNCHANGED <<file_scans, finished>>
                   ELSE IF current_file_idx < FileCount
                   THEN /\ file_scans' = Append(file_scans, current_file_idx)
                        /\ current_boundary' = RestartBoundary(current_file_idx)
                        /\ current_buffer_in_use' = CSVBufferUsage(current_file_idx, 0)
                        /\ use_count' =
                               Drop(Acquire(tracked, CSVBufferUsage(current_file_idx, 0)),
                                    tracker)
                        /\ UNCHANGED finished
                   ELSE /\ finished' = TRUE
                        /\ current_boundary' = advanced.it
                        /\ current_buffer_in_use' = tracker
                        /\ use_count' = tracked
                        /\ UNCHANGED file_scans
    /\ UNCHANGED <<config, last_file_idx, running_threads, bytes_read, errors, rejects,
                   debug_max_line_length, cur_idx, claimed, finalized, decrements, others>>

\* ------------------------------------------------------ the scanning worker

ErrorCount == SumTo([i \in 1..FileCount |-> Len(errors[i - 1])], FileCount)

\* The column a recorded error names; a too-few-columns error names a column
\* that has a successor (D_ASSERT(return_names.size() > col_idx + 1)).
ErrorColumns(type) ==
    IF type = "TOO_FEW_COLUMNS" THEN 0..(NumColumns - 2) ELSE 0..(NumColumns - 1)

\* Every error a row can raise: a kind and the column it names.
AllRowErrors ==
    UNION {{[type |-> type, column_idx |-> col] : col \in ErrorColumns(type)} :
              type \in CSVErrorType}

\* Rows that fail a cast of column 0 or raise an error of a kind that is not
\* persisted.
CastOrSniffing ==
    {[type |-> "CAST_ERROR", column_idx |-> 0], [type |-> "SNIFFING", column_idx |-> 0]}

\* The scanner records a row-level error of a row of its file in the file's
\* error handler.
RecordError(w) ==
    /\ pc[w] = "scan"
    /\ FileSize(scanner[w].file_idx) > 0
    /\ ErrorCount < MaxErrors
    /\ \E error \in row_errors :
        errors' = [errors EXCEPT ![scanner[w].file_idx] = Append(@, error)]
    /\ UNCHANGED <<config, file_scans, last_file_idx, scanner_idx, running_threads,
                   current_boundary, current_buffer_in_use, finished, bytes_read,
                   rejects, debug_max_line_length, pc, cur_idx, scanner, use_count,
                   issued, claimed, finalized, decrements, others>>

\* The bytes a scanner has read when it is done: those of its boundary (of
\* its whole file in single-threaded mode); the scanner that starts a
\* compressed file may count one more (a compressed file yields more bytes
\* than its size).
BytesScanned(s) ==
    LET n == IF s.boundary.is_set
             THEN Cardinality(BoundaryBytes(s.boundary, FileSize(s.file_idx)))
             ELSE FileSize(s.file_idx)
    IN  IF /\ FileSize(s.file_idx) \in CompressedSizes
           /\ s.boundary.buffer_idx = 0
           /\ s.boundary.buffer_pos = 0
        THEN {n, n + 1} ELSE {n}

\* The scanner is done: it has added what it read to bytes_read of its file
\* and is destroyed, its buffer_tracker with it; the worker calls Next()
\* again.
FinishScan(w) ==
    /\ pc[w] = "scan"
    /\ \E n \in BytesScanned(scanner[w]) :
        bytes_read' = [bytes_read EXCEPT ![scanner[w].file_idx] = @ + n]
    /\ scanner' = [scanner EXCEPT ![w] = NoScanner]
    /\ use_count' = Drop(use_count, scanner[w].buffer_tracker)
    /\ pc' = [pc EXCEPT ![w] = "next"]
    /\ UNCHANGED <<config, file_scans, last_file_idx, scanner_idx, running_threads,
                   current_boundary, current_buffer_in_use, finished, errors, rejects,
                   debug_max_line_length, cur_idx, issued, claimed, finalized,
                   decrements, others>>

\* ------------------------------------------------ finalization and rejects

\* bind_data.return_names: column c is named by its index.
ReturnName(c) == c

\* Mutant of RejectRow: the column index is appended as recorded (0-based).
RejectRowZeroBased(error, file_id, of_file) ==
    [file_id |-> file_id,
     column_idx |-> error.column_idx,
     column_name |->
        CASE error.type = "TOO_MANY_COLUMNS" -> {}
          [] error.type = "TOO_FEW_COLUMNS" -> {ReturnName(error.column_idx + 1)}
          [] OTHER -> {ReturnName(error.column_idx)},
     error_type |-> CSVErrorTypeToEnum(error.type),
     of_file |-> of_file,
     of_error |-> error]

\* The row appended for one error.  file_id is the local of FillRejectsTable,
\* set to 0 and never changed; column_name is empty for a null Value().
\* History, not columns: of_file is the file whose error handler held the
\* error, of_error the error as recorded.
RejectRow(error, file_id, of_file) ==
    [file_id |-> file_id,
     column_idx |-> error.column_idx + 1,
     column_name |->
        CASE error.type = "TOO_MANY_COLUMNS" -> {}
          [] error.type = "TOO_FEW_COLUMNS" -> {ReturnName(error.column_idx + 1)}
          [] OTHER -> {ReturnName(error.column_idx)},
     error_type |-> CSVErrorTypeToEnum(error.type),
     of_file |-> of_file,
     of_error |-> error]

\* The loop over the errors of one file.  The inner `break` is guarded by the
\* negation of the condition around it and is never taken.
RECURSIVE AppendErrors(_, _, _, _)
AppendErrors(errs, sink, limit, of_file) ==
    IF errs = <<>> THEN sink
    ELSE LET error == Head(errs) IN
        IF ~IsCSVErrorAcceptedReject(error.type)
        THEN AppendErrors(Tail(errs), sink, limit, of_file)
        ELSE IF limit = 0 \/ sink.count < limit
        THEN IF limit # 0 /\ sink.count >= limit
             THEN sink
             ELSE AppendErrors(Tail(errs),
                               [count |-> sink.count + 1,
                                rows |-> Append(sink.rows, RejectRow(error, 0, of_file))],
                               limit, of_file)
        ELSE AppendErrors(Tail(errs), sink, limit, of_file)

\* The loop over file_scans.
RECURSIVE AppendFiles(_, _, _)
AppendFiles(scans, sink, limit) ==
    IF scans = <<>> THEN sink
    ELSE AppendFiles(Tail(scans),
                     AppendErrors(errors[Head(scans)], sink, limit, Head(scans)),
                     limit)

\* Mutant of FillRejectsTable: the store_rejects option is not consulted.
FillRejectsTableAlways == AppendFiles(file_scans, rejects, options.rejects_limit)

\* CSVGlobalState::FillRejectsTable, under the sink's write_lock.
FillRejectsTable ==
    IF options.store_rejects
    THEN AppendFiles(file_scans, rejects, options.rejects_limit)
    ELSE rejects

\* Mutant of LastThread: finalizes one call early.
LastThreadEarly(running) == running <= 1

\* if (running_threads == 0), after the decrement
LastThread(running) == running = 0

\* CSVGlobalState::DecrementThread, under main_mutex.
DecrementThread(w) ==
    /\ pc[w] = "retire"
    /\ running_threads > 0
    /\ running_threads' = running_threads - 1
    /\ decrements' = decrements + 1
    /\ pc' = [pc EXCEPT ![w] = "exited"]
    /\ IF LastThread(running_threads')
       THEN /\ rejects' = FillRejectsTable
            /\ finalized' = finalized + 1
            /\ debug_max_line_length' =
                   IF debug_set_max_line_length
                   THEN [captured |-> TRUE, file_idx |-> file_scans[1]]
                   ELSE debug_max_line_length
       ELSE UNCHANGED <<rejects, finalized, debug_max_line_length>>
    /\ UNCHANGED <<config, file_scans, last_file_idx, scanner_idx, current_boundary,
                   current_buffer_in_use, finished, bytes_read, errors, cur_idx,
                   scanner, use_count, issued, claimed, others>>

\* ---------------------------------------------------------- specifications

\* Scheduling and progress: workers pull, read and retire.
Next ==
    \E w \in Workers :
        \/ NextSingleClaim(w)
        \/ NextSingleBuild(w)
        \/ NextParallel(w)
        \/ FinishScan(w)
        \/ DecrementThread(w)

Spec == Init /\ [][Next]_vars

\* The file lists of the scans whose rejects are followed.
RejectFileLists == UNION {[1..n -> {BYTES_PER_THREAD}] : n \in 1..MaxRejectFiles}

\* Rejects: a pool of running_threads workers pull, record errors and retire,
\* under every setting of the rejects options.
InitRejects ==
    \E fs \in RejectFileLists, threads \in 1..MaxBudget, parallel \in BOOLEAN,
       store \in BOOLEAN, limit \in 0..MaxLimit, dbg \in BOOLEAN, pool \in Workers :
        /\ Construct(fs, CastOrSniffing, threads,
                     [parallel |-> parallel, store_rejects |-> store,
                      rejects_limit |-> limit],
                     dbg, pool)
        /\ pool = running_threads
        /\ others = <<>>

NextRejects ==
    \E w \in Workers :
        \/ NextSingleClaim(w)
        \/ NextSingleBuild(w)
        \/ NextParallel(w)
        \/ RecordError(w)
        \/ FinishScan(w)
        \/ DecrementThread(w)

SpecRejects == InitRejects /\ [][NextRejects]_vars

\* Error kinds: one worker scans one file whose rows raise one or two of the
\* errors a row can raise, of any kind and at any column, in either mode.
InitRowErrors ==
    \E parallel \in BOOLEAN, limit \in 0..MaxLimit, a, b \in AllRowErrors :
        /\ Construct(<<BYTES_PER_THREAD>>, {a, b}, 1,
                     [parallel |-> parallel, store_rejects |-> TRUE,
                      rejects_limit |-> limit],
                     FALSE, 1)
        /\ others = <<>>

SpecRowErrors == InitRowErrors /\ [][NextRejects]_vars

\* The error lists another statement can have collected.
OtherErrorLists == UNION {[1..n -> CastOrSniffing] : n \in 0..MaxErrors}

\* Mutant of OtherFillRejectsTable: the statement checks the limit against
\* the rows it has persisted itself, not against the count of the sink.
OtherFillOwnCount ==
    /\ others # <<>>
    /\ LET own == AppendErrors(Head(others), [count |-> 0, rows |-> <<>>],
                               options.rejects_limit, -1)
       IN  rejects' = [count |-> rejects.count + own.count,
                       rows |-> rejects.rows \o own.rows]
    /\ others' = Tail(others)
    /\ UNCHANGED <<config, file_scans, last_file_idx, scanner_idx, running_threads,
                   current_boundary, current_buffer_in_use, finished, bytes_read,
                   errors, debug_max_line_length, pc, cur_idx, scanner, use_count,
                   issued, claimed, finalized, decrements>>

\* FillRejectsTable() of another statement with the same options whose
\* CSVRejectsTable::GetOrCreate returned the same sink: its whole loop runs
\* under the sink's write_lock, before or after this statement's.  Its rows
\* are marked of_file = -1.
OtherFillRejectsTable ==
    /\ others # <<>>
    /\ rejects' = AppendErrors(Head(others), rejects, options.rejects_limit, -1)
    /\ others' = Tail(others)
    /\ UNCHANGED <<config, file_scans, last_file_idx, scanner_idx, running_threads,
                   current_boundary, current_buffer_in_use, finished, bytes_read,
                   errors, debug_max_line_length, pc, cur_idx, scanner, use_count,
                   issued, claimed, finalized, decrements>>

\* Shared sink: one worker scans one file while the other statements that
\* store their rejects in the same sink, under the same limit K > 0, finalize.
InitSharedSink ==
    \E parallel \in BOOLEAN, limit \in 1..MaxLimit,
       os \in UNION {[1..n -> OtherErrorLists] : n \in 1..MaxOthers} :
        /\ Construct(<<BYTES_PER_THREAD>>, CastOrSniffing, 1,
                     [parallel |-> parallel, store_rejects |-> TRUE,
                      rejects_limit |-> limit],
                     FALSE, 1)
        /\ others = os

NextSharedSink == NextRejects \/ OtherFillRejectsTable

SpecSharedSink == InitSharedSink /\ [][NextSharedSink]_vars


\* ------------------------------------------------------------------ claims

\* running_threads as the constructor set it: MaxThreads() of the first file.
InitialRunningThreads == MaxThreadsOf(single_threaded, FileSize(0), system_threads)

\* C1: finalization has run exactly once when DecrementThread() has been
\* called running_threads times, and not at all before: it runs inside the
\* call that brings the counter to zero.
C1_FinalizeOnce ==
    /\ decrements <= InitialRunningThreads
    /\ running_threads = InitialRunningThreads - decrements
    /\ finalized = (IF decrements = InitialRunningThreads THEN 1 ELSE 0)

C1_Witness == finalized = 1 /\ decrements >= 2

IssuedBytes(i) == BoundaryBytes(issued[i].boundary, FileSize(issued[i].file_idx))

\* C2: over a single file in range-parallel mode the boundaries handed out
\* are pairwise disjoint, and once the coordinator has finished they cover
\* every byte of the file.
C2_Partition ==
    (~single_threaded /\ FileCount = 1) =>
        /\ \A i, j \in 1..Len(issued) :
               i # j => IssuedBytes(i) \cap IssuedBytes(j) = {}
        /\ \A i \in 1..Len(issued) : IssuedBytes(i) \subseteq 0..(FileSize(0) - 1)
        /\ finished =>
               UNION {IssuedBytes(i) : i \in 1..Len(issued)} = 0..(FileSize(0) - 1)

C2_Witness ==
    /\ ~single_threaded /\ FileCount = 1 /\ finished
    /\ Len(issued) >= 3
    /\ \E v, w \in Workers : v # w /\ pc[v] = "scan" /\ pc[w] = "scan"

BoundaryBefore(a, b) ==
    \/ a.file_idx < b.file_idx
    \/ a.file_idx = b.file_idx /\ a.buffer_idx < b.buffer_idx
    \/ a.file_idx = b.file_idx /\ a.buffer_idx = b.buffer_idx
        /\ a.buffer_pos < b.buffer_pos

\* C3: in range-parallel mode the boundaries returned by successive Next()
\* calls strictly increase in (file index, buffer index, offset).
C3_IssueOrder ==
    ~single_threaded =>
        \A i \in 1..(Len(issued) - 1) :
            BoundaryBefore(issued[i].boundary, issued[i + 1].boundary)

C3_Witness ==
    /\ ~single_threaded
    /\ \E i \in 1..(Len(issued) - 1) :
        /\ issued[i].boundary.buffer_idx = 1
        /\ issued[i + 1].boundary.file_idx = issued[i].boundary.file_idx + 1
    /\ \E v, w \in Workers : v # w /\ pc[v] = "scan" /\ pc[w] = "scan"

\* The files Next() has issued a scan unit for.
IssuedFiles == {issued[i].file_idx : i \in 1..Len(issued)}

EligibleCount(f) ==
    Cardinality({i \in 1..Len(errors[f]) : IsCSVErrorAcceptedReject(errors[f][i].type)})

RowsOf(f) == Cardinality({i \in 1..Len(rejects.rows) : rejects.rows[i].of_file = f})

\* C4: with store_rejects and no limit, after finalization the sink holds one
\* row for every eligible error of every file a scan unit was issued for.
C4_AllErrorsPersisted ==
    (finalized = 1 /\ options.store_rejects /\ options.rejects_limit = 0) =>
        \A f \in IssuedFiles : RowsOf(f) = EligibleCount(f)

LastFile == FileCount - 1

\* The last file has been handed out, its scanners are done and it has been
\* read to its end.
LastFileRead ==
    /\ LastFile \in IssuedFiles
    /\ \A w \in Workers : pc[w] = "scan" => scanner[w].file_idx # LastFile
    /\ bytes_read[LastFile] >= FileSize(LastFile)

\* C5: GetProgress() is exactly 100 once the last file has been fully read.
C5_ProgressComplete == LastFileRead => ProgressNum = 100 * ProgressDen

C7_ModeDecision ==
    single_threaded <=> (FileCount > 2 * system_threads \/ ~options.parallel)

C7_Witness ==
    \/ single_threaded /\ options.parallel /\ Len(issued) > 0
    \/ ~single_threaded /\ FileCount = 2 * system_threads /\ Len(issued) > 0

CeilDiv(a, b) == (a + b - 1) \div b

\* C8 as first stated: in range-parallel mode MaxThreads() is
\* min(ceil(first_file_size / BYTES_PER_THREAD) + 1, thread budget).
C8_CeilPlusOne ==
    MaxThreads =
        IF single_threaded THEN system_threads
        ELSE Min(CeilDiv(FileSize(0), BYTES_PER_THREAD) + 1, system_threads)

\* C8, amended: in single-threaded mode MaxThreads() is the thread budget; in
\* range-parallel mode it is min(floor(size / BYTES_PER_THREAD) + 1, budget),
\* size being that of the newest CSVFileScan: the first file at construction.
C8_FloorPlusOne ==
    /\ MaxThreads =
        IF single_threaded THEN system_threads
        ELSE Min(FileSize(Last(file_scans)) \div BYTES_PER_THREAD + 1, system_threads)
    /\ InitialRunningThreads =
        IF single_threaded THEN system_threads
        ELSE Min(FileSize(0) \div BYTES_PER_THREAD + 1, system_threads)

C8_Witness ==
    /\ ~single_threaded
    /\ FileSize(Last(file_scans)) % BYTES_PER_THREAD # 0
    /\ MaxThreads < system_threads
    /\ decrements = InitialRunningThreads

TotalEligible == SumTo([i \in 1..FileCount |-> EligibleCount(i - 1)], FileCount)

\* C9: with a limit K > 0 and more than K eligible errors over all files,
\* finalization on a fresh sink persists exactly K rows.
C9_LimitExact ==
    (/\ finalized = 1
     /\ options.store_rejects
     /\ options.rejects_limit > 0
     /\ TotalEligible > options.rejects_limit) =>
        /\ rejects.count = options.rejects_limit
        /\ Len(rejects.rows) = options.rejects_limit

\* C10: in single-threaded mode the k-th Next() call claims file k - 1; calls
\* 1..F each return a whole-file scan unit for the file they claimed, no file
\* is handed out twice, and every later call returns no more work.
C10_FileOrder ==
    single_threaded =>
        /\ \A k \in 1..Len(claimed) : claimed[k] = k - 1
        /\ \A i, j \in 1..Len(issued) :
               i # j => issued[i].file_idx # issued[j].file_idx
        /\ \A i \in 1..Len(issued) :
               /\ issued[i].file_idx \in 0..LastFile
               /\ issued[i].boundary = EmptyIterator
        /\ \A w \in Workers :
               /\ pc[w] \in {"claimed", "scan"} => cur_idx[w] \in 0..LastFile
               /\ pc[w] = "scan" => scanner[w].file_idx = cur_idx[w]
               /\ pc[w] \in {"retire", "exited"} => cur_idx[w] >= FileCount

C10_Witness ==
    /\ single_threaded
    /\ FileCount >= 2
    /\ Len(issued) = FileCount
    /\ issued[1].file_idx # 0
    /\ \A w \in Workers : pc[w] = "exited"

\* The scan units Next() has issued for file f.
UnitsOf(f) == Cardinality({i \in 1..Len(issued) : issued[i].file_idx = f})

\* C11: an empty file yields exactly one scan unit.  Over a single empty
\* file GetProgress() is 100 from construction on, the first Next() call is
\* the only one that returns a unit and the calls after it return no more
\* work; in range-parallel mode an empty file at any position has no unit
\* while the cursor has not reached it and exactly one once the cursor has
\* moved on.
C11_EmptyFileOneUnit ==
    /\ (FileCount = 1 /\ FileSize(0) = 0) =>
        /\ ProgressNum = 100 * ProgressDen
        /\ UnitsOf(0) <= 1
        /\ single_threaded =>
               /\ \A k \in 1..Len(claimed) : claimed[k] = k - 1
               /\ \A w \in Workers :
                      /\ pc[w] \in {"claimed", "scan"} => cur_idx[w] = 0
                      /\ pc[w] \in {"retire", "exited"} => cur_idx[w] >= 1
               /\ UnitsOf(0) = 1 <=>
                      /\ Len(claimed) >= 1
                      /\ \A w \in Workers : pc[w] # "claimed"
        /\ ~single_threaded => (finished <=> UnitsOf(0) = 1)
        /\ (\E w \in Workers : pc[w] \in {"retire", "exited"}) =>
               (UnitsOf(0) = 1 \/ \E v \in Workers : pc[v] = "claimed")
    /\ ~single_threaded =>
        \A f \in 0..LastFile :
            FileSize(f) = 0 =>
                /\ Last(file_scans) < f => UnitsOf(f) = 0
                /\ (Last(file_scans) = f /\ ~finished) => UnitsOf(f) = 0
                /\ (Last(file_scans) > f \/ finished) => UnitsOf(f) = 1

C11_Witness ==
    /\ FileCount = 1 /\ FileSize(0) = 0
    /\ Len(issued) = 1
    /\ \E w \in Workers : pc[w] = "exited"

\* C12: every persisted row carries as file_id the index of the file whose
\* error handler held the error.
C12_FileIdIsFileIndex ==
    \A i \in 1..Len(rejects.rows) : rejects.rows[i].file_id = rejects.rows[i].of_file

\* C13: a too-few-columns error recorded at column c is persisted with
\* column index c + 1, a too-many-columns error with no column name, and an
\* error of any other eligible kind with the declared name of its column c.
C13_ColumnOfRow ==
    \A i \in 1..Len(rejects.rows) :
        LET row == rejects.rows[i]
            error == row.of_error
        IN  /\ error.type = "TOO_FEW_COLUMNS" =>
                   row.column_idx = error.column_idx + 1
            /\ error.type = "TOO_MANY_COLUMNS" => row.column_name = {}
            /\ error.type \notin {"TOO_FEW_COLUMNS", "TOO_MANY_COLUMNS"} =>
                   row.column_name = {ReturnName(error.column_idx)}

C13_Witness ==
    /\ finalized = 1
    /\ Len(rejects.rows) = 2
    /\ rejects.rows[1].of_error = [type |-> "TOO_FEW_COLUMNS", column_idx |-> 0]
    /\ rejects.rows[2].of_error = [type |-> "TOO_MANY_COLUMNS", column_idx |-> NumColumns - 1]

\* C14: with store_rejects off, the DecrementThread() call that brings
\* running_threads to zero still finalizes, capturing the maximum line length
\* when its flag is set, and the sink keeps the count and the rows it had,
\* whatever errors were collected.
C14_NoStoreNoRows ==
    ~options.store_rejects =>
        /\ rejects = [count |-> 0, rows |-> <<>>]
        /\ finalized = (IF running_threads = 0 THEN 1 ELSE 0)
        /\ debug_max_line_length.captured <=>
               (running_threads = 0 /\ debug_set_max_line_length)

C14_Witness ==
    /\ ~options.store_rejects
    /\ finalized = 1
    /\ debug_max_line_length.captured
    /\ \E i \in 1..Len(errors[0]) : errors[0][i].type = "CAST_ERROR"

\* The buffers of the files: a CSVBufferUsage stands for (file, buffer index).
Buffers ==
    UNION {{CSVBufferUsage(f, b) : b \in 0..(BufferCount(FileSize(f)) - 1)} :
              f \in 0..LastFile}

\* The workers still running a scan unit issued for a boundary inside the
\* buffer.
UnfinishedUnits(tracker) ==
    {w \in Workers :
        /\ pc[w] = "scan"
        /\ scanner[w].boundary.is_set
        /\ scanner[w].file_idx = tracker.file_idx
        /\ scanner[w].boundary.buffer_idx = tracker.buffer_idx}

HolderCount(tracker) ==
    IF tracker \in DOMAIN use_count THEN use_count[tracker] ELSE 0

\* C15: a buffer is not released while a scan unit issued for a boundary
\* inside it is still running, nor while it is the coordinator's current
\* token: its holder count is at least the number of its unfinished units,
\* and one more while the coordinator holds it.
C15_HeldWhileInUse ==
    \A tracker \in Buffers :
        LET owed == Cardinality(UnfinishedUnits(tracker))
                    + (IF current_buffer_in_use = tracker THEN 1 ELSE 0)
        IN  /\ HolderCount(tracker) >= owed
            /\ owed > 0 => ~Released(tracker)

C15_Witness ==
    \E tracker \in Buffers :
        /\ current_buffer_in_use # tracker
        /\ UnfinishedUnits(tracker) # {}
        /\ \E w \in Workers :
               /\ pc[w] = "scan"
               /\ scanner[w].buffer_tracker = current_buffer_in_use
               /\ scanner[w].file_idx = tracker.file_idx

\* The workers of the pool.
Pool == {w \in Workers : pc[w] # "absent"}

\* C16: for a pool of any size from 1 to MaxThreads(), once every worker of
\* the pool has pulled until Next() returned no more work and has called
\* DecrementThread() once, finalization has run, and it never runs twice.
C16_FinalizedWhenPoolDone ==
    /\ finalized <= 1
    /\ (\A w \in Pool : pc[w] = "exited") => finalized = 1

\* C17 as first stated: in range-parallel mode over several files
\* MaxThreads() returns after any sequence of Next() calls what it returned
\* at construction.
C17_MaxThreadsOfFirstFile ==
    (~single_threaded /\ FileCount > 1) => MaxThreads = InitialRunningThreads

\* C17, amended: in range-parallel mode over several files MaxThreads() is
\* derived from the size of the file the coordinator is at (the newest
\* CSVFileScan): it returns what it returned at construction while the
\* coordinator is at the first file, and the value of a later file once
\* Next() has opened it.
C17_MaxThreadsOfCurrentFile ==
    (~single_threaded /\ FileCount > 1) =>
        /\ Last(file_scans) = current_boundary.file_idx
        /\ MaxThreads =
               Min(FileSize(current_boundary.file_idx) \div BYTES_PER_THREAD + 1,
                   system_threads)
        /\ current_boundary.file_idx = 0 => MaxThreads = InitialRunningThreads

C17_Witness ==
    /\ ~single_threaded
    /\ FileCount > 1
    /\ current_boundary.file_idx = 1
    /\ MaxThreads # InitialRunningThreads

\* C18: statements with the same limit K > 0 that share one sink and
\* finalize in any order never persist more than K rows in total.
C18_SharedSinkWithinLimit ==
    /\ rejects.count <= options.rejects_limit
    /\ Len(rejects.rows) <= options.rejects_limit

C18_Witness ==
    /\ finalized = 1
    /\ others = <<>>
    /\ EligibleCount(0) >= 1
    /\ Len(rejects.rows) = options.rejects_limit
    /\ rejects.rows[1].of_file = -1

\* The six kinds the claim names.
EligibleKinds ==
    {"CAST_ERROR", "TOO_MANY_COLUMNS", "TOO_FEW_COLUMNS", "MAXIMUM_LINE_SIZE",
     "UNTERMINATED_QUOTES", "INVALID_UNICODE"}

\* The errors of an eligible kind collected for file f.
EligibleErrors(f) == {i \in 1..Len(errors[f]) : errors[f][i].type \in EligibleKinds}

Held(tracker) ==
    \/ current_buffer_in_use = tracker
    \/ \E w \in Workers : pc[w] = "scan" /\ scanner[w].buffer_tracker = tracker

\* C20: a buffer whose token was made is released exactly when its last
\* holder has dropped it: once the coordinator's current token is another
\* one and every scan unit that captured a copy has finished, the holder
\* count is 0 and the buffer released, and not before.
C20_ReleasedWhenUnheld ==
    \A tracker \in DOMAIN use_count :
        /\ Released(tracker) <=> ~Held(tracker)
        /\ ~Held(tracker) => use_count[tracker] = 0

C20_Witness ==
    \E tracker \in DOMAIN use_count :
        /\ Released(tracker)
        /\ \E i \in 1..Len(issued) : issued[i].buffer_tracker = tracker
        /\ current_buffer_in_use.file_idx = tracker.file_idx
        /\ \E w \in Workers : pc[w] = "scan"

\* C21: every scan unit Next() returns in range-parallel mode is built from
\* one snapshot: its file, its boundary and its buffer token name the same
\* file, and the token's buffer index is the boundary's buffer index.
C21_ConsistentSnapshot ==
    ~single_threaded =>
        \A i \in 1..Len(issued) :
            /\ issued[i].boundary.is_set
            /\ issued[i].boundary.file_idx = issued[i].file_idx
            /\ issued[i].buffer_tracker.file_idx = issued[i].file_idx
            /\ issued[i].buffer_tracker.buffer_idx = issued[i].boundary.buffer_idx

C21_Witness ==
    /\ ~single_threaded
    /\ \E i \in 1..Len(issued) :
           /\ issued[i].file_idx >= 1
           /\ issued[i].boundary.buffer_idx = 1
           /\ issued[i].buffer_tracker = CSVBufferUsage(issued[i].file_idx, 1)
    /\ \E v, w \in Workers :
           /\ v # w /\ pc[v] = "scan" /\ pc[w] = "scan"
           /\ scanner[v].buffer_tracker # scanner[w].buffer_tracker

\* C22: in range-parallel mode a finished coordinator stays finished: every
\* later Next() call returns no more work (its caller goes on to retire, no
\* scan unit is issued) and the cursor, the current token, the list of file
\* contexts and the scanner counter keep their values.
C22_FinishedForGood ==
    [][(~single_threaded /\ finished) =>
          /\ finished'
          /\ current_boundary' = current_boundary
          /\ current_buffer_in_use' = current_buffer_in_use
          /\ file_scans' = file_scans
          /\ scanner_idx' = scanner_idx
          /\ issued' = issued
          /\ \A w \in Workers :
                 (pc[w] = "next" /\ pc'[w] # "next") =>
                     (pc'[w] = "retire" /\ scanner'[w] = NoScanner)]_vars

C22_Witness ==
    /\ ~single_threaded
    /\ finished
    /\ Last(file_scans) = LastFile
    /\ FileCount >= 2
    /\ \E v, w \in Workers :
           /\ pc[v] = "exited"
           /\ pc[w] = "retire"

\* C23: in single-threaded mode the cursor is the empty CSVIterator() from
\* construction on and no step changes it; every scan unit issued carries
\* this empty boundary, and Next() leaves the finished flag and the current
\* buffer token as the constructor set them.
C23_EmptyCursorFrame ==
    /\ [](single_threaded =>
             /\ current_boundary = EmptyIterator
             /\ ~finished
             /\ current_buffer_in_use = CSVBufferUsage(0, 0)
             /\ \A i \in 1..Len(issued) : issued[i].boundary = EmptyIterator
             /\ \A w \in Workers :
                    pc[w] = "scan" => scanner[w].boundary = EmptyIterator)
    /\ [][single_threaded =>
             /\ current_boundary' = current_boundary
             /\ finished' = finished
             /\ current_buffer_in_use' = current_buffer_in_use]_vars

C23_Witness ==
    /\ single_threaded
    /\ Len(issued) >= 2
    /\ \E w \in Workers : pc[w] = "exited"
    /\ \E w \in Workers : pc[w] = "scan"

\* C24: in range-parallel mode the list of file contexts is never empty,
\* entry i is the context of file i (one per file index 0..k, in increasing
\* order), k is the cursor's file index, and a step leaves the list as it is
\* or appends the context of file k + 1; so GetProgress() reads the byte
\* counters of the file the cursor is at.
C24_FileScansList ==
    /\ [](~single_threaded =>
             /\ Len(file_scans) >= 1
             /\ Len(file_scans) <= FileCount
             /\ \A i \in 1..Len(file_scans) : file_scans[i] = i - 1
             /\ file_scans[Len(file_scans)] = current_boundary.file_idx)
    /\ [][~single_threaded =>
             \/ file_scans' = file_scans
             \/ file_scans' = Append(file_scans, Len(file_scans))]_vars

C24_Witness ==
    /\ ~single_threaded
    /\ Len(file_scans) = 3
    /\ current_boundary.file_idx = 2
    /\ bytes_read[0] > 0
    /\ bytes_read[2] = 0
    /\ \E w \in Workers : pc[w] = "scan" /\ scanner[w].file_idx = 1


====
